---- MODULE Spec2Model ----
(***************************************************************************)
(* HistogramColorClassifier (deepgaze/color_classification.py) as a state  *)
(* machine.  One classifier instance; every public method is one action.   *)
(*                                                                         *)
(* Numbers.  Histogram bins and comparison scores are floats in the code;  *)
(* here they are fixed-point integers in units of 1/Scale.  An element of  *)
(* the probability array is the exact quotient score/sum, written as the   *)
(* pair <<score, sum>> (sum = 0 is numpy's nan or inf).                    *)
(* Indices are Python's (0-based); name_list[i] is name_list[i + 1] here.  *)
(***************************************************************************)
EXTENDS Integers, Sequences, FiniteSets, TLC

\* ------------------------------------------------------------------ bounds
MaxModels == 3
Scale == 4
HistSize == 2

\* Input domains of the calls that are explored.
Blue == <<1, 0, 0>>
Black == <<0, 0, 0>>
White == <<1, 1, 1>>
Images == {<<Blue, Blue>>, <<Black, White>>}
NoImage == <<>>
Methods == {"intersection", "euclid"}
OutputTypes == {"list", "dict"}
Majors == {"3", "4"}
\* the whole interface, under explicit names
Names == {"a", "b"}
HistTypes == {"BGR", "HSV", "LAB"}
\* the model collection alone, under explicit and default names
ModelNames == {"", "a", "0"}
ModelHistTypes == {"BGR", "HSV", "GRAY", "RGB", "LAB"}

\* --------------------------------------------------------- python helpers
NoneIndex == -1

Digit == <<"0", "1", "2", "3", "4", "5", "6", "7", "8", "9">>

RECURSIVE str(_)
str(n) == IF n < 10 THEN Digit[n + 1] ELSE str(n \div 10) \o Digit[(n % 10) + 1]

Range(s) == {s[i] : i \in 1..Len(s)}

Min(a, b) == IF a <= b THEN a ELSE b

RECURSIVE SumSeq(_)
SumSeq(s) == IF s = <<>> THEN 0 ELSE Head(s) + SumSeq(Tail(s))

\* list.index(x): position (1-based here) of the first occurrence
IndexOf(s, x) == CHOOSE i \in 1..Len(s) : s[i] = x /\ \A j \in 1..(i - 1) : s[j] # x

\* del s[i] (i is 1-based here)
DelAt(s, i) == [j \in 1..(Len(s) - 1) |-> IF j < i THEN s[j] ELSE s[j + 1]]

\* faulty variant of argmax: the last maximum on ties
argmax_lastOnTies(a) ==
    (CHOOSE i \in 1..Len(a) : (\A j \in 1..Len(a) : a[j] <= a[i]) /\ (\A j \in (i + 1)..Len(a) : a[j] < a[i])) - 1

\* np.argmax: 0-based index of the first maximum of a non-empty sequence
argmax(a) ==
    (CHOOSE i \in 1..Len(a) : (\A j \in 1..Len(a) : a[j] <= a[i]) /\ (\A j \in 1..(i - 1) : a[j] < a[i])) - 1

\* np.divide(a, np.sum(a)), element by element
divide(a, s) == [i \in 1..Len(a) |-> <<a[i], s>>]

\* dict(zip(keys, vals)): zip stops at the shorter, a later pair wins its key
dictzip(keys, vals) ==
    LET n == Min(Len(keys), Len(vals))
    IN  [k \in {keys[i] : i \in 1..n} |-> vals[CHOOSE i \in 1..n : keys[i] = k /\ \A j \in (i + 1)..n : keys[j] # k]]

\* ------------------------------------------------------------- imaging
\* cv2.cvtColor on 8-bit pixels whose channel values are 0 or 1
BGR2RGB(p) == <<p[3], p[2], p[1]>>

\* Y = 0.114 B + 0.587 G + 0.299 R, rounded: 1 exactly when G = 1
BGR2GRAY(p) == <<p[2]>>

\* H (halved degrees), S, V of an 8-bit pixel
BGR2HSV(p) ==
    LET b == p[1]
        g == p[2]
        r == p[3]
        v == IF b + g + r > 0 THEN 1 ELSE 0
        mn == IF b + g + r = 3 THEN 1 ELSE 0
        deg == IF v = mn THEN 0
               ELSE IF r = 1 THEN (IF g = b THEN 0 ELSE IF g = 1 THEN 60 ELSE 300)
               ELSE IF g = 1 THEN 120 + 60 * b
               ELSE 240
    IN  <<deg \div 2, IF v = mn THEN 0 ELSE 255, v>>

cvtColor(image, code) ==
    [i \in 1..Len(image) |-> IF code = "HSV" THEN BGR2HSV(image[i])
                             ELSE IF code = "GRAY" THEN BGR2GRAY(image[i])
                             ELSE BGR2RGB(image[i])]

\* cv2.calcHist over channel 0, HistSize bins of width 1 from 0
calcHist(image) == [b \in 1..HistSize |-> Cardinality({i \in 1..Len(image) : image[i][1] = b - 1})]

\* floor of the square root
isqrt(n) == CHOOSE r \in 0..n : r * r <= n /\ (r + 1) * (r + 1) > n

\* cv2.normalize(hist, hist): L2 norm 1, a zero histogram stays zero
normalize(hist) ==
    LET ss == SumSeq([i \in 1..Len(hist) |-> hist[i] * hist[i]])
    IN  [i \in 1..Len(hist) |-> IF ss = 0 THEN 0 ELSE isqrt((hist[i] * hist[i] * Scale * Scale) \div ss)]

\* faulty variant of INTERSECT: the per-bin maximums are summed
INTERSECT_max(h1, h2) == SumSeq([i \in 1..Len(h1) |-> IF h1[i] >= h2[i] THEN h1[i] ELSE h2[i]])

\* cv2.compareHist on two flattened histograms of equal length
INTERSECT(h1, h2) == SumSeq([i \in 1..Len(h1) |-> Min(h1[i], h2[i])])

CHISQR(h1, h2) ==
    SumSeq([i \in 1..Len(h1) |-> IF h1[i] = 0 THEN 0 ELSE ((h1[i] - h2[i]) * (h1[i] - h2[i])) \div h1[i]])

CORREL(h1, h2) ==
    LET n == Len(h1)
        s1 == SumSeq(h1)
        s2 == SumSeq(h2)
        s11 == SumSeq([i \in 1..n |-> h1[i] * h1[i]])
        s22 == SumSeq([i \in 1..n |-> h2[i] * h2[i]])
        s12 == SumSeq([i \in 1..n |-> h1[i] * h2[i]])
        num == n * s12 - s1 * s2
        den2 == (n * s11 - s1 * s1) * (n * s22 - s2 * s2)
    IN  IF den2 = 0 THEN Scale
        ELSE IF num >= 0 THEN isqrt((Scale * Scale * num * num) \div den2)
        ELSE 0 - isqrt((Scale * Scale * num * num) \div den2)

BHATTACHARYYA(h1, h2) ==
    LET n == Len(h1)
        s == SumSeq([i \in 1..n |-> isqrt(h1[i] * h2[i])])
        d == isqrt(SumSeq(h1) * SumSeq(h2))
        r == IF d = 0 THEN s ELSE (Scale * s) \div d
    IN  isqrt(Scale * (IF r < Scale THEN Scale - r ELSE 0))

compareHist(h1, h2, flag) ==
    IF flag = "INTERSECT" THEN INTERSECT(h1, h2)
    ELSE IF flag = "CORREL" THEN CORREL(h1, h2)
    ELSE IF flag = "CHISQR" THEN CHISQR(h1, h2)
    ELSE BHATTACHARYYA(h1, h2)

\* ------------------------------------------------------------------ state
VARIABLES
    MAJOR,              \* major version of the installed OpenCV
    hist_type,          \* color-space mode given to the constructor
    model_list,         \* stored histograms
    name_list,          \* stored names
    comparison,         \* cache: a comparison was performed
    best_match_name,    \* cache
    best_match_index,   \* cache (NoneIndex until a comparison completes)
    probability_array,  \* cache
    comparison_array,   \* cache
    call,               \* the call made last, with its arguments
    ret,                \* what that call returned or raised
    compared,           \* history: name_list and scores of the last comparison that returned
    unnamed_run,        \* history: unnamed adds in a row, the first into an empty collection
    latest,             \* history: per stored name, the histogram added under it last
    repeated            \* history: the call repeats the comparison made just before it

config == <<MAJOR, hist_type>>
models == <<model_list, name_list>>
cache == <<comparison, best_match_name, best_match_index, probability_array, comparison_array>>
vars == <<MAJOR, hist_type, model_list, name_list, comparison, best_match_name, best_match_index, probability_array, comparison_array, call, ret, compared, unnamed_run, latest, repeated>>

Return(kind, val) == [kind |-> kind, val |-> val]
Raise(exc) == [kind |-> "raise", val |-> exc]
ReturnNone == [kind |-> "None", val |-> 0]

\* ------------------------------------------------------ addModelHistogram
\* faulty variant of ValidHistTypes: the mode is not checked
ValidHistTypes_unchecked == HistTypes \cup ModelHistTypes

ValidHistTypes == {"BGR", "HSV", "GRAY", "RGB"}

\* the flattened histogram of a frame under mode ht: convert, calcHist, normalize
histogramOf(frame, ht) ==
    normalize(calcHist(IF ht \in {"HSV", "GRAY", "RGB"} THEN cvtColor(frame, ht) ELSE frame))

\* faulty variant of defaultName: numbering from one
defaultName_fromOne(name, ms) == IF name = "" THEN str(Len(ms) + 1) ELSE name

\* name == '' becomes str(len(self.model_list))
defaultName(name, ms) == IF name = "" THEN str(Len(ms)) ELSE name

\* faulty variant of addedModels: the overwrite hits the first entry
addedModels_firstEntry(ms, ns, hist, name) ==
    IF name \notin Range(ns) THEN Append(ms, hist)
    ELSE [ms EXCEPT ![1] = hist]

\* faulty variant of addedModels: no test for a name already present
addedModels_alwaysAppend(ms, ns, hist, name) == Append(ms, hist)

\* faulty variant of addedNames: a new name goes to the front
addedNames_prepend(ns, name) ==
    IF name \notin Range(ns) THEN <<name>> \o ns ELSE ns

\* faulty variant of addedNames: no test for a name already present
addedNames_alwaysAppend(ns, name) == Append(ns, name)

\* model_list and name_list after the append or the overwrite in place
addedModels(ms, ns, hist, name) ==
    IF name \notin Range(ns) THEN Append(ms, hist)
    ELSE [ms EXCEPT ![IndexOf(ns, name)] = hist]

addedNames(ns, name) ==
    IF name \notin Range(ns) THEN Append(ns, name) ELSE ns

addModelHistogram(model_frame, name) ==
    /\ call' = [op |-> "addModelHistogram", model_frame |-> model_frame, name |-> name]
    /\ IF hist_type \notin ValidHistTypes
       THEN /\ ret' = Raise("NameError")
            /\ UNCHANGED <<models, unnamed_run, latest>>
       ELSE LET hist == histogramOf(model_frame, hist_type)
                nm == defaultName(name, model_list)
            IN  /\ Len(addedNames(name_list, nm)) <= MaxModels
                /\ model_list' = addedModels(model_list, name_list, hist, nm)
                /\ name_list' = addedNames(name_list, nm)
                /\ ret' = ReturnNone
                /\ unnamed_run' = IF name # "" THEN 0
                                  ELSE IF Len(model_list) = 0 THEN 1
                                  ELSE IF unnamed_run > 0 THEN unnamed_run + 1
                                  ELSE 0
                /\ latest' = [n \in DOMAIN latest \cup {nm} |-> IF n = nm THEN hist ELSE latest[n]]
    /\ repeated' = FALSE
    /\ UNCHANGED <<config, cache, compared>>

\* --------------------------------------------- removeModelHistogramByName
\* faulty variant of removedModels: the last histogram is deleted
removedModels_last(ms, ns, name) == DelAt(ms, Len(ms))

\* faulty variant of removeModelHistogramByName: a removal clears the cache flag
removeModelHistogramByName_invalidating(name) ==
    /\ call' = [op |-> "removeModelHistogramByName", name |-> name]
    /\ IF name \notin Range(name_list)
       THEN /\ ret' = [kind |-> "bool", val |-> FALSE]
            /\ UNCHANGED <<model_list, name_list, comparison, latest>>
       ELSE /\ name_list' = DelAt(name_list, IndexOf(name_list, name))
            /\ model_list' = DelAt(model_list, IndexOf(name_list, name))
            /\ comparison' = FALSE
            /\ latest' = [n \in DOMAIN latest \ {name} |-> latest[n]]
            /\ ret' = [kind |-> "bool", val |-> TRUE]
    /\ unnamed_run' = 0
    /\ repeated' = FALSE
    /\ UNCHANGED <<MAJOR, hist_type, best_match_name, best_match_index, probability_array, comparison_array, compared>>

\* faulty variant of removedNames: the first name is deleted
removedNames_first(ns, name) == Tail(ns)

removedNames(ns, name) == DelAt(ns, IndexOf(ns, name))

removedModels(ms, ns, name) == DelAt(ms, IndexOf(ns, name))

removeModelHistogramByName(name) ==
    /\ call' = [op |-> "removeModelHistogramByName", name |-> name]
    /\ IF name \notin Range(name_list)
       THEN /\ ret' = Return("bool", FALSE)
            /\ UNCHANGED <<models, latest>>
       ELSE /\ name_list' = removedNames(name_list, name)
            /\ model_list' = removedModels(model_list, name_list, name)
            /\ latest' = [n \in DOMAIN latest \ {name} |-> latest[n]]
            /\ ret' = Return("bool", TRUE)
    /\ unnamed_run' = 0
    /\ repeated' = FALSE
    /\ UNCHANGED <<config, cache, compared>>

\* ------------------------------------------------ returnHistogramComparison
SupportedMethods == {"intersection", "correlation", "chisqr", "bhattacharyya"}

flagOf(method) ==
    IF method = "intersection" THEN "INTERSECT"
    ELSE IF method = "correlation" THEN "CORREL"
    ELSE IF method = "chisqr" THEN "CHISQR"
    ELSE "BHATTACHARYYA"

\* the exception the call raises, "" when it returns
comparisonError(method) ==
    IF method \notin SupportedMethods THEN "ValueError: method not supported"
    ELSE IF MAJOR \notin {"2", "3"} THEN "ValueError: version"
    ELSE ""

returnHistogramComparison(hist_1, hist_2, method) ==
    IF comparisonError(method) # "" THEN Raise(comparisonError(method))
    ELSE Return("float", compareHist(hist_1, hist_2, flagOf(method)))

\* ------------------------------------------- returnHistogramComparisonArray
\* faulty variant of comparisonScores: the models are visited last to first
comparisonScores_backwards(image_hist, method) ==
    [i \in 1..Len(model_list) |-> returnHistogramComparison(image_hist, model_list[Len(model_list) + 1 - i], method).val]

\* faulty variant of comparisonScores: the scores add to the cached ones
comparisonScores_accumulating(image_hist, method) ==
    [i \in 1..Len(model_list) |->
        returnHistogramComparison(image_hist, model_list[i], method).val
            + (IF i <= Len(comparison_array) THEN comparison_array[i] ELSE 0)]

\* comparison_array after the loop over model_list
comparisonScores(image_hist, method) ==
    [i \in 1..Len(model_list) |-> returnHistogramComparison(image_hist, model_list[i], method).val]

\* The body of the method: the exception it raises ("" when it returns), how
\* many of its five cache writes it made before that, and the score array.
ComparisonOf(image_hist, method) ==
    IF Len(model_list) > 0 /\ comparisonError(method) # ""
    THEN [raised |-> comparisonError(method), writes |-> 0, scores |-> <<>>]
    ELSE IF Len(model_list) = 0
    THEN [raised |-> "ValueError: argmax of an empty sequence", writes |-> 2, scores |-> <<>>]
    ELSE IF argmax(comparisonScores(image_hist, method)) >= Len(name_list)
    THEN [raised |-> "IndexError", writes |-> 3, scores |-> comparisonScores(image_hist, method)]
    ELSE [raised |-> "", writes |-> 5, scores |-> comparisonScores(image_hist, method)]

Comparison(image, method) == ComparisonOf(histogramOf(image, hist_type), method)

\* the cache after the body ran, in the order of its writes
Compared(r) ==
    /\ comparison' = IF r.writes >= 1 THEN TRUE ELSE comparison
    /\ probability_array' = IF r.writes >= 2 THEN divide(r.scores, SumSeq(r.scores)) ELSE probability_array
    /\ best_match_index' = IF r.writes >= 3 THEN argmax(r.scores) ELSE best_match_index
    /\ best_match_name' = IF r.writes >= 4 THEN name_list[argmax(r.scores) + 1] ELSE best_match_name
    /\ comparison_array' = IF r.writes >= 5 THEN r.scores ELSE comparison_array
    /\ compared' = IF r.raised = "" THEN [names |-> name_list, scores |-> r.scores] ELSE compared

arrayResult(scores, output_type) ==
    IF output_type = "dict" THEN Return("dict", dictzip(name_list, scores))
    ELSE Return("list", scores)

returnHistogramComparisonArray(image, method, output_type) ==
    LET r == Comparison(image, method)
    IN  /\ call' = [op |-> "returnHistogramComparisonArray", image |-> image, method |-> method, output_type |-> output_type]
        /\ Compared(r)
        /\ ret' = IF r.raised # "" THEN Raise(r.raised) ELSE arrayResult(r.scores, output_type)
        /\ unnamed_run' = 0
        /\ repeated' = (/\ call.op = "returnHistogramComparisonArray"
                         /\ call.image = image
                         /\ call.method = method)
        /\ UNCHANGED latest
        /\ UNCHANGED <<config, models>>

\* ------------------------------------------------------------- cached calls
\* faulty variant of useCache: a supplied image is compared afresh
useCache_unlessImage(image) == comparison /\ image = NoImage

\* faulty variant of noImageResult: the missing image is an error
noImageResult_raises == [kind |-> "raise", val |-> "TypeError"]

\* the three calls below answer from the cache when a comparison was performed
useCache(image) == comparison

\* without a cached comparison and without an image they warn and return None
noImageResult == ReturnNone

\* ------------------------------------- returnHistogramComparisonProbability
cachedProbability(output_type) ==
    IF output_type = "dict" THEN Return("dict", dictzip(name_list, probability_array))
    ELSE Return("list", probability_array)

returnHistogramComparisonProbability(image, method, output_type) ==
    /\ call' = [op |-> "returnHistogramComparisonProbability", image |-> image, method |-> method, output_type |-> output_type]
    /\ IF useCache(image)
       THEN /\ ret' = cachedProbability(output_type)
            /\ UNCHANGED <<cache, compared>>
       ELSE IF image # NoImage
       THEN LET r == Comparison(image, method)
            IN  /\ Compared(r)
                /\ ret' = IF r.raised # "" THEN Raise(r.raised)
                          ELSE Return("list", divide(r.scores, SumSeq(r.scores)))
       ELSE /\ ret' = noImageResult
            /\ UNCHANGED <<cache, compared>>
    /\ unnamed_run' = 0
    /\ repeated' = FALSE
    /\ UNCHANGED latest
    /\ UNCHANGED <<config, models>>

\* ----------------------------------------------------- returnBestMatchIndex
cachedIndex == IF best_match_index = NoneIndex THEN ReturnNone ELSE Return("index", best_match_index)

returnBestMatchIndex(image, method) ==
    /\ call' = [op |-> "returnBestMatchIndex", image |-> image, method |-> method]
    /\ IF useCache(image)
       THEN /\ ret' = cachedIndex
            /\ UNCHANGED <<cache, compared>>
       ELSE IF image # NoImage
       THEN LET r == Comparison(image, method)
            IN  /\ Compared(r)
                /\ ret' = IF r.raised # "" THEN Raise(r.raised)
                          ELSE Return("index", argmax(r.scores))
       ELSE /\ ret' = noImageResult
            /\ UNCHANGED <<cache, compared>>
    /\ unnamed_run' = 0
    /\ repeated' = FALSE
    /\ UNCHANGED latest
    /\ UNCHANGED <<config, models>>

\* ------------------------------------------------------ returnBestMatchName
returnBestMatchName(image, method) ==
    /\ call' = [op |-> "returnBestMatchName", image |-> image, method |-> method]
    /\ IF useCache(image)
       THEN /\ ret' = Return("name", best_match_name)
            /\ UNCHANGED <<cache, compared>>
       ELSE IF image # NoImage
       THEN LET r == Comparison(image, method)
            IN  /\ Compared(r)
                /\ ret' = IF r.raised # "" THEN Raise(r.raised)
                          ELSE Return("name", name_list[argmax(r.scores) + 1])
       ELSE /\ ret' = noImageResult
            /\ UNCHANGED <<cache, compared>>
    /\ unnamed_run' = 0
    /\ repeated' = FALSE
    /\ UNCHANGED latest
    /\ UNCHANGED <<config, models>>

\* ------------------------------------------------ returnNameList, returnSize
returnNameList ==
    /\ call' = [op |-> "returnNameList"]
    /\ ret' = Return("list", name_list)
    /\ unnamed_run' = 0
    /\ repeated' = FALSE
    /\ UNCHANGED latest
    /\ UNCHANGED <<config, models, cache, compared>>

returnSize ==
    /\ call' = [op |-> "returnSize"]
    /\ ret' = Return("int", Len(model_list))
    /\ unnamed_run' = 0
    /\ repeated' = FALSE
    /\ UNCHANGED latest
    /\ UNCHANGED <<config, models, cache, compared>>

\* ------------------------------------------------- __init__, InitializeModel
\* Data and Names are None (<<>>) or a list (<<list>>).
CtorArgs ==
    {<<<<>>, <<>>>>,
     <<<<<<>>>>, <<<<>>>>>>,
     <<<<<<CHOOSE im \in Images : TRUE>>>>, <<<<"a">>>>>>,
     <<<<<<CHOOSE im \in Images : TRUE>>>>, <<<<"a", "b">>>>>>,
     <<<<<<<<Blue, Blue>>, <<Black, White>>>>>>, <<<<"b", "a">>>>>>,
     <<<<<<<<Blue, Blue>>, <<Black, White>>>>>>, <<<<"a", "a">>>>>>}

\* the loop of InitializeModel: addModelHistogram on each pair, in order
RECURSIVE addEach(_, _, _, _, _)
addEach(ms, ns, ht, Imgs, Nms) ==
    IF Imgs = <<>> THEN <<ms, ns>>
    ELSE LET hist == histogramOf(Head(Imgs), ht)
             nm == defaultName(Head(Nms), ms)
         IN  addEach(addedModels(ms, ns, hist, nm), addedNames(ns, nm), ht, Tail(Imgs), Tail(Nms))

\* faulty variant of InitializeModel: the pairs are added up to the shorter list
InitializeModel_noLengthCheck(ht, Data, Nms) ==
    IF Data # <<>> /\ Nms # <<>>
    THEN addEach(<<>>, <<>>, ht, SubSeq(Data[1], 1, Min(Len(Data[1]), Len(Nms[1]))),
                                 SubSeq(Nms[1], 1, Min(Len(Data[1]), Len(Nms[1]))))
    ELSE <<<<>>, <<>>>>

\* the pairs are added when both lists are given and have equal lengths
InitializeModel(ht, Data, Nms) ==
    IF Data # <<>> /\ Nms # <<>> /\ Len(Nms[1]) = Len(Data[1])
    THEN addEach(<<>>, <<>>, ht, Data[1], Nms[1])
    ELSE <<<<>>, <<>>>>

\* the constructor raises when it adds a model under an unrecognized mode
Constructs(ht, Data, Nms) ==
    \/ ht \in ValidHistTypes
    \/ ~(Data # <<>> /\ Nms # <<>> /\ Len(Nms[1]) = Len(Data[1]) /\ Len(Data[1]) > 0)

Constructed(hts) ==
    /\ MAJOR \in Majors
    /\ hist_type \in hts
    /\ \E args \in CtorArgs :
        /\ Constructs(hist_type, args[1], args[2])
        /\ model_list = InitializeModel(hist_type, args[1], args[2])[1]
        /\ name_list = InitializeModel(hist_type, args[1], args[2])[2]
        /\ call = [op |-> "__init__", Data |-> args[1], Names |-> args[2]]
    /\ comparison = FALSE
    /\ best_match_name = " "
    /\ best_match_index = NoneIndex
    /\ probability_array = <<>>
    /\ comparison_array = <<>>
    /\ ret = ReturnNone
    /\ compared = [names |-> <<>>, scores |-> <<>>]
    /\ unnamed_run = 0
    /\ latest = [n \in Range(name_list) |->
                    LET N == call.Names[1]
                        last == CHOOSE k \in 1..Len(N) : N[k] = n /\ \A j \in (k + 1)..Len(N) : N[j] # n
                    IN  histogramOf(call.Data[1][last], hist_type)]
    /\ repeated = FALSE

\* ---------------------------------------------------------- specifications
\* every method, under explicit names
Init == Constructed(HistTypes)

Next ==
    \/ \E f \in Images, n \in Names : addModelHistogram(f, n)
    \/ \E n \in Names : removeModelHistogramByName(n)
    \/ \E im \in Images, m \in Methods, o \in OutputTypes : returnHistogramComparisonArray(im, m, o)
    \/ \E im \in Images \cup {NoImage}, m \in Methods, o \in OutputTypes : returnHistogramComparisonProbability(im, m, o)
    \/ \E im \in Images \cup {NoImage}, m \in Methods : returnBestMatchIndex(im, m)
    \/ \E im \in Images \cup {NoImage}, m \in Methods : returnBestMatchName(im, m)
    \/ returnNameList
    \/ returnSize

Spec == Init /\ [][Next]_vars

\* the methods that manage the collection, under explicit and default names
InitModels == Constructed(ModelHistTypes)

NextModels ==
    \/ \E f \in Images, n \in ModelNames : addModelHistogram(f, n)
    \/ \E n \in ModelNames : removeModelHistogramByName(n)
    \/ returnNameList
    \/ returnSize

SpecModels == InitModels /\ [][NextModels]_vars

\* ------------------------------------------------------------ properties
CachedCalls == {"returnHistogramComparisonProbability", "returnBestMatchIndex", "returnBestMatchName"}

\* i is the (0-based) index of the first maximum of a
IsFirstMax(a, i) ==
    /\ i \in 0..(Len(a) - 1)
    /\ \A j \in 1..Len(a) : a[j] <= a[i + 1]
    /\ \A j \in 1..i : a[j] < a[i + 1]

\* m maps the i-th of names to the i-th of vals, as far as both reach
IsMapping(m, names, vals) ==
    LET n == IF Len(names) <= Len(vals) THEN Len(names) ELSE Len(vals)
    IN  /\ DOMAIN m = {names[i] : i \in 1..n}
        /\ \A i \in 1..n : m[names[i]] = vals[i]

\* the (name, histogram) pairs of the collection, in order
Pairs(ns, ms) == [i \in 1..Len(ns) |-> <<ns[i], ms[i]>>]

\* C1: once a comparison has returned, returnBestMatchIndex() without an image
\* returns the index of the first maximum of the scores that comparison
\* computed, and returnBestMatchName() without an image returns the name that
\* was at that index in the collection when the comparison was made.
C1_CacheCorrectness ==
    /\ (call.op = "returnHistogramComparisonArray" /\ ret.kind = "list")
            => (ret.val = compared.scores /\ compared.names = name_list)
    /\ (compared.scores # <<>> /\ call.op = "returnBestMatchIndex" /\ call.image = NoImage)
            => (ret.kind = "index" /\ IsFirstMax(compared.scores, ret.val))
    /\ (compared.scores # <<>> /\ call.op = "returnBestMatchName" /\ call.image = NoImage)
            => (ret.kind = "name" /\ \E i \in 0..(Len(compared.scores) - 1) :
                    IsFirstMax(compared.scores, i) /\ ret.val = compared.names[i + 1])

\* a name is returned from the cache after a tie between two models, the
\* collection having changed since the comparison
C1_Witness ==
    /\ call.op = "returnBestMatchName"
    /\ call.image = NoImage
    /\ ret.kind = "name"
    /\ Len(compared.scores) = 2
    /\ compared.scores[1] = compared.scores[2]
    /\ compared.names # name_list

\* C2: while the comparison flag is set, the three cached calls return the
\* cached probabilities (as a sequence, or mapped from the current names), the
\* cached index and the cached name, and change neither the cache nor the
\* collection, whatever image, method or output type they are given.
C2_CacheFirst ==
    [][(comparison /\ call'.op \in CachedCalls) =>
        /\ cache' = cache
        /\ models' = models
        /\ (call'.op = "returnHistogramComparisonProbability" /\ call'.output_type = "list")
                => (ret'.kind = "list" /\ ret'.val = probability_array)
        /\ (call'.op = "returnHistogramComparisonProbability" /\ call'.output_type = "dict")
                => (ret'.kind = "dict" /\ IsMapping(ret'.val, name_list, probability_array))
        /\ (call'.op = "returnBestMatchIndex")
                => IF best_match_index = NoneIndex THEN ret'.kind = "None"
                   ELSE ret'.kind = "index" /\ ret'.val = best_match_index
        /\ (call'.op = "returnBestMatchName")
                => (ret'.kind = "name" /\ ret'.val = best_match_name)]_vars

\* the cached index is returned to a call that supplied an image, for a
\* collection that has changed since the comparison
C2_Witness ==
    /\ call.op = "returnBestMatchIndex"
    /\ call.image # NoImage
    /\ ret.kind = "index"
    /\ comparison
    /\ compared.names # name_list
    /\ Len(name_list) > 0

\* C3: addModelHistogram and removeModelHistogramByName leave the five cache
\* fields as they were.
C3_CacheUntouched ==
    [][(call'.op \in {"addModelHistogram", "removeModelHistogramByName"}) => cache' = cache]_vars

\* the cached best match has just been removed and the cache still names it
C3_Witness ==
    /\ call.op = "removeModelHistogramByName"
    /\ ret.kind = "bool"
    /\ ret.val = TRUE
    /\ comparison
    /\ best_match_index # NoneIndex
    /\ best_match_name \notin Range(name_list)

\* C4: no name occurs twice in name_list.
C4_NamesUnique ==
    \A i \in 1..Len(name_list) : \A j \in 1..Len(name_list) : (i # j) => name_list[i] # name_list[j]

\* an unnamed add, not one of a run from the empty collection, left three names
C4_Witness ==
    /\ call.op = "addModelHistogram"
    /\ call.name = ""
    /\ ret.kind = "None"
    /\ Len(name_list) = 3
    /\ unnamed_run = 0

\* C5: removing an absent name returns false and changes nothing; removing a
\* present name returns true, shortens the collection by one, and leaves the
\* other (name, histogram) pairs paired and in their order.
C5_Remove ==
    [][(call'.op = "removeModelHistogramByName") =>
        IF call'.name \notin Range(name_list)
        THEN ret'.kind = "bool" /\ ret'.val = FALSE /\ models' = models
        ELSE /\ ret'.kind = "bool" /\ ret'.val = TRUE
             /\ Len(model_list') = Len(model_list) - 1
             /\ Len(name_list') = Len(model_list')
             /\ call'.name \notin Range(name_list')
             /\ Pairs(name_list', model_list')
                    = SelectSeq(Pairs(name_list, model_list), LAMBDA p : p[1] # call'.name)]_vars

\* the default name "0" was removed and two entries with different histograms stay
C5_Witness ==
    /\ call.op = "removeModelHistogramByName"
    /\ ret.kind = "bool"
    /\ ret.val = TRUE
    /\ call.name = "0"
    /\ Len(name_list) = 2
    /\ model_list[1] # model_list[2]

\* C6: adding under a name already present keeps name_list and the size, the
\* name still occurs once, the entry of that name holds the new histogram and
\* the other histograms are unchanged.
C6_Overwrite ==
    [][(call'.op = "addModelHistogram" /\ ret'.kind # "raise" /\ call'.name \in Range(name_list)) =>
        /\ name_list' = name_list
        /\ Len(model_list') = Len(model_list)
        /\ Cardinality({i \in 1..Len(name_list') : name_list'[i] = call'.name}) = 1
        /\ \A i \in 1..Len(name_list) :
                model_list'[i] = IF name_list[i] = call'.name
                                 THEN histogramOf(call'.model_frame, hist_type)
                                 ELSE model_list[i]]_vars

\* the second of three entries was overwritten with a histogram unlike the first
C6_Witness ==
    /\ call.op = "addModelHistogram"
    /\ call.name = "a"
    /\ Len(name_list) = 3
    /\ name_list[2] = "a"
    /\ model_list[2] = histogramOf(call.model_frame, hist_type)
    /\ model_list[1] # model_list[2]

\* C7: a comparison that returns has scored every stored model in collection
\* order: the i-th score compares the query histogram with the i-th model;
\* the list result is that sequence, the mapping result maps the i-th name to
\* the i-th score; the sequence is cached and the cached probabilities are as
\* many.
C7_ComparisonArray ==
    (call.op = "returnHistogramComparisonArray" /\ ret.kind # "raise") =>
        /\ Len(comparison_array) = Len(model_list)
        /\ \A i \in 1..Len(model_list) :
                comparison_array[i] = compareHist(histogramOf(call.image, hist_type), model_list[i], flagOf(call.method))
        /\ Len(probability_array) = Len(comparison_array)
        /\ (call.output_type = "list") => (ret.kind = "list" /\ ret.val = comparison_array)
        /\ (call.output_type = "dict") => (ret.kind = "dict" /\ IsMapping(ret.val, name_list, comparison_array))

\* a mapping was returned for two models with different scores
C7_Witness ==
    /\ call.op = "returnHistogramComparisonArray"
    /\ ret.kind = "dict"
    /\ Len(model_list) = 2
    /\ comparison_array[1] < comparison_array[2]

\* C8: an add with the empty name uses the decimal string of the size before
\* the call; unnamed adds in a row into an empty collection store "0", "1",
\* "2", ... in that order.
Decimals == <<"0", "1", "2", "3", "4", "5", "6", "7", "8", "9">>

C8_DefaultNaming ==
    /\ [](unnamed_run > 0 => name_list = SubSeq(Decimals, 1, unnamed_run))
    /\ [][(call'.op = "addModelHistogram" /\ call'.name = "" /\ ret'.kind # "raise") =>
            name_list' = IF Decimals[Len(model_list) + 1] \in Range(name_list) THEN name_list
                         ELSE Append(name_list, Decimals[Len(model_list) + 1])]_vars

\* three unnamed adds in a row
C8_Witness ==
    /\ unnamed_run = 3
    /\ name_list = <<"0", "1", "2">>
    /\ call.op = "addModelHistogram"

\* C9: with the flag unset and no image, the three cached calls return None
\* without raising and change neither the collection nor the cache.
C9_NoImage ==
    [][(~comparison /\ call'.op \in CachedCalls /\ call'.image = NoImage) =>
        /\ ret'.kind = "None"
        /\ cache' = cache
        /\ models' = models]_vars

\* the name was asked of a classifier that holds models and has compared nothing
C9_Witness ==
    /\ call.op = "returnBestMatchName"
    /\ call.image = NoImage
    /\ ret.kind = "None"
    /\ ~comparison
    /\ Len(model_list) > 0

\* C10: under an unrecognized color-space mode, a comparison (the array call,
\* or a cached call that is given an image while the flag is unset) raises the
\* configuration error and writes no cache field.
C10_ConfigurationError ==
    [][(/\ hist_type \notin ValidHistTypes
        /\ \/ call'.op = "returnHistogramComparisonArray"
           \/ (call'.op \in CachedCalls /\ ~comparison /\ call'.image # NoImage)) =>
        /\ ret'.kind = "raise"
        /\ ret'.val = "NameError"
        /\ cache' = cache]_vars

\* C11: an unsupported method name makes returnHistogramComparison raise the
\* unsupported-method error, and makes returnHistogramComparisonArray fail
\* with that error, whatever the collection holds, leaving the collection and
\* the cache as they were.
C11_UnsupportedMethod ==
    /\ [](\A im1 \in Images, im2 \in Images :
            \A m \in Methods \ {"intersection", "correlation", "chisqr", "bhattacharyya"} :
                LET r == returnHistogramComparison(histogramOf(im1, hist_type), histogramOf(im2, hist_type), m)
                IN  r.kind = "raise" /\ r.val = "ValueError: method not supported")
    /\ [][(/\ call'.op = "returnHistogramComparisonArray"
           /\ call'.method \notin {"intersection", "correlation", "chisqr", "bhattacharyya"}) =>
            /\ ret'.kind = "raise"
            /\ ret'.val = "ValueError: method not supported"
            /\ cache' = cache
            /\ models' = models]_vars

\* C13: returnHistogramComparisonProbability returns a mapping exactly when a
\* mapping is requested, from the cache and from a fresh comparison alike.
C13_ProbabilityShape ==
    (call.op = "returnHistogramComparisonProbability" /\ ret.kind \notin {"raise", "None"}) =>
        IF call.output_type = "dict" THEN ret.kind = "dict" ELSE ret.kind = "list"

\* C18: whenever the comparison flag is set the cache holds the whole result
\* of one comparison: an index into the cached scores, the name that was at
\* that index, and as many probabilities as scores.
C18_CacheComplete ==
    comparison =>
        /\ best_match_index # NoneIndex
        /\ best_match_index \in 0..(Len(comparison_array) - 1)
        /\ comparison_array = compared.scores
        /\ best_match_name = compared.names[best_match_index + 1]
        /\ Len(probability_array) = Len(comparison_array)

\* C12: under an unrecognized color-space mode addModelHistogram raises the
\* configuration error and leaves the collection and the cache as they were,
\* so such a classifier never holds a model.
C12_AddUnrecognizedMode ==
    /\ [](hist_type \notin {"BGR", "HSV", "GRAY", "RGB"} => (model_list = <<>> /\ name_list = <<>>))
    /\ [][(call'.op = "addModelHistogram" /\ hist_type \notin {"BGR", "HSV", "GRAY", "RGB"}) =>
            /\ ret'.kind = "raise"
            /\ ret'.val = "NameError"
            /\ models' = models
            /\ cache' = cache]_vars

\* an add was refused while the cache was no longer the initial one
C12_Witness ==
    /\ call.op = "addModelHistogram"
    /\ ret.kind = "raise"
    /\ hist_type = "LAB"
    /\ comparison

\* C15: a model added under a name not yet present goes to the end of the
\* name list and makes the size one more, so distinct names added to an empty
\* classifier are listed in the order of their adds; returnNameList and
\* returnSize return that list and its length and change nothing; the
\* comparison calls leave the name list alone.
C15_InsertionOrder ==
    /\ [][(call'.op = "addModelHistogram" /\ ret'.kind # "raise" /\ call'.name # ""
                /\ call'.name \notin Range(name_list)) =>
            (name_list' = Append(name_list, call'.name) /\ Len(model_list') = Len(name_list'))]_vars
    /\ [][(call'.op = "returnNameList") =>
            (ret'.kind = "list" /\ ret'.val = name_list /\ models' = models /\ cache' = cache)]_vars
    /\ [][(call'.op = "returnSize") =>
            (ret'.kind = "int" /\ ret'.val = Len(name_list) /\ models' = models /\ cache' = cache)]_vars
    /\ [][(call'.op \in CachedCalls \cup {"returnHistogramComparisonArray"}) => name_list' = name_list]_vars

\* the list is returned in the order of the adds, which is not the sorted one
C15_Witness ==
    /\ call.op = "returnNameList"
    /\ ret.kind = "list"
    /\ ret.val = <<"b", "a">>

\* C17: under the intersection metric a stored model whose histogram equals
\* the query's has the greatest score, and the best match is that model or an
\* earlier one with the same score.
C17_SelfSimilarity ==
    (call.op = "returnHistogramComparisonArray" /\ ret.kind # "raise" /\ call.method = "intersection") =>
        \A i \in 1..Len(model_list) :
            (model_list[i] = histogramOf(call.image, hist_type)) =>
                /\ \A j \in 1..Len(comparison_array) : comparison_array[j] <= comparison_array[i]
                /\ best_match_index + 1 <= i
                /\ comparison_array[best_match_index + 1] = comparison_array[i]

\* the query's own model is the second of two and is the best match
C17_Witness ==
    /\ call.op = "returnHistogramComparisonArray"
    /\ ret.kind # "raise"
    /\ call.method = "intersection"
    /\ Len(model_list) = 2
    /\ model_list[2] = histogramOf(call.image, hist_type)
    /\ model_list[1] # model_list[2]
    /\ best_match_index = 1

\* C19: an add makes the size one more and puts the entry last when its
\* resulting name (the given one, or the decimal string of the size for the
\* empty name) was absent, and keeps the size when that name was present, as
\* for an unnamed add whose default name a removal has left in the list.
C19_AddSize ==
    [][(call'.op = "addModelHistogram" /\ ret'.kind # "raise") =>
        LET nm == IF call'.name = "" THEN Decimals[Len(model_list) + 1] ELSE call'.name
            n == Len(model_list)
        IN  IF nm \notin Range(name_list)
            THEN /\ Len(model_list') = n + 1
                 /\ Len(name_list') = n + 1
                 /\ name_list'[n + 1] = nm
                 /\ model_list'[n + 1] = histogramOf(call'.model_frame, hist_type)
                 /\ SubSeq(name_list', 1, n) = name_list
                 /\ SubSeq(model_list', 1, n) = model_list
            ELSE /\ Len(model_list') = n
                 /\ name_list' = name_list]_vars

\* an unnamed add into the one-entry collection <<"1">> overwrote that entry
C19_Witness ==
    /\ call.op = "addModelHistogram"
    /\ call.name = ""
    /\ ret.kind = "None"
    /\ name_list = <<"1">>

\* C14: after construction the cache is empty; when images and names are both
\* given with equal lengths the pairs were added in order by the add rule (each
\* name once, at the place of its first occurrence, with the histogram of the
\* last image given under it); when the lengths differ the collection is empty.
C14_Construction ==
    (call.op = "__init__") =>
        /\ ~comparison
        /\ best_match_index = NoneIndex
        /\ (call.Data # <<>> /\ call.Names # <<>>) =>
            LET D == call.Data[1]
                N == call.Names[1]
            IN  IF Len(D) # Len(N)
                THEN model_list = <<>> /\ name_list = <<>>
                ELSE /\ Len(model_list) = Len(name_list)
                     /\ Range(name_list) = Range(N)
                     /\ Len(name_list) = Cardinality(Range(N))
                     /\ \A i \in 1..Len(name_list), j \in 1..Len(name_list) :
                            i < j => \E k \in 1..Len(N) :
                                        /\ N[k] = name_list[i]
                                        /\ \A l \in 1..k : N[l] # name_list[j]
                     /\ \A i \in 1..Len(name_list) : \E k \in 1..Len(N) :
                            /\ N[k] = name_list[i]
                            /\ \A l \in (k + 1)..Len(N) : N[l] # name_list[i]
                            /\ i <= Len(model_list)
                            /\ model_list[i] = histogramOf(D[k], hist_type)

\* two pairs were given and both are stored, in the order given
C14_Witness ==
    /\ call.op = "__init__"
    /\ call.Names # <<>>
    /\ Len(call.Names[1]) = 2
    /\ name_list = <<"b", "a">>

\* C16: a returnHistogramComparisonArray call that repeats the one before it,
\* image and method, ends as that one did (the same exception, or the same
\* score sequence) and leaves the cache as that one left it.
C16_Idempotence ==
    [][(/\ call.op = "returnHistogramComparisonArray"
        /\ call'.op = "returnHistogramComparisonArray"
        /\ call'.image = call.image
        /\ call'.method = call.method) =>
            /\ cache' = cache
            /\ ret'.kind = "raise" <=> ret.kind = "raise"
            /\ ret.kind = "raise" => ret'.val = ret.val
            /\ (ret.kind = "list" /\ ret'.kind = "list") => ret'.val = ret.val
            /\ (ret.kind = "dict" /\ ret'.kind = "dict") => ret'.val = ret.val
            /\ (ret.kind = "list" /\ ret'.kind = "dict") => ret'.val = dictzip(name_list, ret.val)]_vars

\* the comparison against two models was made twice in a row
C16_Witness ==
    /\ repeated
    /\ call.op = "returnHistogramComparisonArray"
    /\ ret.kind = "dict"
    /\ Len(comparison_array) = 2

\* C20: the name list and the histogram list have the same length, and the
\* histogram at each position is the one added last under the name there.
C20_ParallelSequences ==
    /\ Len(name_list) = Len(model_list)
    /\ \A i \in 1..Len(name_list) :
        /\ name_list[i] \in DOMAIN latest
        /\ model_list[i] = latest[name_list[i]]

\* a removal after a comparison left the other name with its histogram
C20_Witness ==
    /\ call.op = "removeModelHistogramByName"
    /\ ret.kind = "bool"
    /\ ret.val
    /\ comparison
    /\ name_list = <<"b">>

\* C21: a call of returnBestMatchIndex, returnBestMatchName or
\* returnHistogramComparisonProbability that is given an image, on a non-empty
\* collection with no comparison performed yet, and that returns, has set the
\* comparison flag and returned what the same call without the image returns
\* from the cache it left: the cached index, the cached name (the name at that
\* index), the cached probabilities in the requested output type.
C21_FreshEqualsCached ==
    [][(/\ ~comparison
        /\ Len(model_list) > 0
        /\ call'.op \in {"returnBestMatchIndex", "returnBestMatchName", "returnHistogramComparisonProbability"}
        /\ call'.image # NoImage
        /\ ret'.kind # "raise") =>
            /\ comparison'
            /\ comparison_array' = [i \in 1..Len(model_list) |->
                    compareHist(histogramOf(call'.image, hist_type), model_list[i], flagOf(call'.method))]
            /\ (call'.op = "returnBestMatchIndex") =>
                    (ret'.kind = "index" /\ ret'.val = best_match_index')
            /\ (call'.op = "returnBestMatchName") =>
                    /\ ret'.kind = "name"
                    /\ ret'.val = best_match_name'
                    /\ ret'.val = name_list[best_match_index' + 1]
            /\ (call'.op = "returnHistogramComparisonProbability") =>
                    IF call'.output_type = "dict"
                    THEN ret'.kind = "dict" /\ IsMapping(ret'.val, name_list, probability_array')
                    ELSE ret'.kind = "list" /\ ret'.val = probability_array']_vars

====
